---- MODULE Spec2Model ----
(***************************************************************************)
(* Hotel data merger (src/main.py): three supplier adapters (Acme,         *)
(* Paperflies, Patagonia) parse raw records into Hotel entities,           *)
(* HotelsService.merge_and_save folds them into one entity per id and      *)
(* HotelsService.find filters the merged mapping.                          *)
(*                                                                         *)
(* Representation of Python values:                                        *)
(*   - a str is the sequence of its characters (<<"t","v">> is "tv");      *)
(*   - a value that may be None, a str, an int or a list is a tagged       *)
(*     record: None, Str(chars), Num(n), List(seq), Dict(record);          *)
(*   - a dict is a record; an absent key is a field not in its DOMAIN.     *)
(***************************************************************************)
EXTENDS Integers, Sequences, FiniteSets, TLC

VARIABLES pc, supplier_data, hotels, order, pending, filtered, query,
          supplier, dto, result

vars == <<pc, supplier_data, hotels, order, pending, filtered, query,
          supplier, dto, result>>

(***************************************************************************)
(* Bounds                                                                  *)
(***************************************************************************)
\* number of Hotel records folded by merge_and_save in one run
MaxRecords == 3

(***************************************************************************)
(* Python values                                                           *)
(***************************************************************************)
None == [tag |-> "None"]
Str(s) == [tag |-> "str", val |-> s]
Num(n) == [tag |-> "int", val |-> n]
List(s) == [tag |-> "list", val |-> s]
Dict(d) == [tag |-> "dict", val |-> d]

\* bool(v): None, "", 0, [] and {} are falsy
Truthy(v) ==
    CASE v.tag = "None" -> FALSE
      [] v.tag = "str"  -> v.val # <<>>
      [] v.tag = "int"  -> v.val # 0
      [] v.tag = "list" -> v.val # <<>>
      [] v.tag = "dict" -> DOMAIN v.val # {}

ToSet(s) == {s[i] : i \in 1..Len(s)}

InSeq(x, s) == \E i \in 1..Len(s) : s[i] = x

NoDuplicates(s) == \A i, j \in 1..Len(s) : s[i] = s[j] => i = j

\* the lists list(set(...)) can return: every order of the distinct elements
Orderings(S) ==
    {s \in [1..Cardinality(S) -> S] : \A x \in S : \E i \in 1..Cardinality(S) : s[i] = x}

Digit(d) == <<"0", "1", "2", "3", "4", "5", "6", "7", "8", "9">>[d + 1]

RECURSIVE NatToChars(_)
NatToChars(n) == IF n < 10 THEN <<Digit(n)>>
                 ELSE NatToChars(n \div 10) \o <<Digit(n % 10)>>

\* str(v) for the values a destination_id takes
ToStr(v) ==
    CASE v.tag = "None" -> <<"N", "o", "n", "e">>
      [] v.tag = "str"  -> v.val
      [] v.tag = "int"  -> IF v.val < 0 THEN <<"-">> \o NatToChars(0 - v.val)
                           ELSE NatToChars(v.val)

(***************************************************************************)
(* Strings: str.strip, str.lower, camel_to_snake_case                      *)
(***************************************************************************)
UpperChars == <<"A", "B", "C", "D", "E", "F", "G", "H", "I", "J", "K", "L", "M",
                "N", "O", "P", "Q", "R", "S", "T", "U", "V", "W", "X", "Y", "Z">>
LowerChars == <<"a", "b", "c", "d", "e", "f", "g", "h", "i", "j", "k", "l", "m",
                "n", "o", "p", "q", "r", "s", "t", "u", "v", "w", "x", "y", "z">>

IsUpper(c) == \E i \in 1..26 : UpperChars[i] = c

LowerChar(c) == IF IsUpper(c) THEN LowerChars[CHOOSE i \in 1..26 : UpperChars[i] = c]
                ELSE c

Lower(s) == [i \in 1..Len(s) |-> LowerChar(s[i])]

IsSpace(c) == c \in {" ", "\t", "\n", "\r"}

RECURSIVE LStrip(_)
LStrip(s) == IF s # <<>> /\ IsSpace(Head(s)) THEN LStrip(Tail(s)) ELSE s

RECURSIVE RStrip(_)
RStrip(s) == IF s # <<>> /\ IsSpace(s[Len(s)]) THEN RStrip(SubSeq(s, 1, Len(s) - 1))
             ELSE s

Strip(s) == RStrip(LStrip(s))

\* re.sub(r'(?<!^)([A-Z])', r' \1', s): a space before every capital that is
\* not the first character
RECURSIVE InsertBoundaries(_, _)
InsertBoundaries(s, i) ==
    IF i > Len(s) THEN <<>>
    ELSE (IF i > 1 /\ IsUpper(s[i]) THEN <<" ", s[i]>> ELSE <<s[i]>>)
         \o InsertBoundaries(s, i + 1)

camel_to_snake_case(s) == Lower(InsertBoundaries(s, 1))

\* needle in haystack, for two str
IsSubstring(needle, hay) ==
    \E i \in 0..(Len(hay) - Len(needle)) :
        \A j \in 1..Len(needle) : hay[i + j] = needle[j]

(***************************************************************************)
(* Vocabularies                                                            *)
(***************************************************************************)
GENERAL_AMENITIES ==
    { <<"o","u","t","d","o","o","r"," ","p","o","o","l">>,
      <<"i","n","d","o","o","r"," ","p","o","o","l">>,
      <<"b","u","s","i","n","e","s","s"," ","c","e","n","t","e","r">>,
      <<"c","h","i","l","d","c","a","r","e">>,
      <<"w","i","f","i">>,
      <<"d","r","y"," ","c","l","e","a","n","i","n","g">>,
      <<"b","r","e","a","k","f","a","s","t">> }

ROOM_AMENITIES ==
    { <<"a","i","r","c","o","n">>,
      <<"t","v">>,
      <<"c","o","f","f","e","e"," ","m","a","c","h","i","n","e">>,
      <<"k","e","t","t","l","e">>,
      <<"h","a","i","r"," ","d","r","y","e","r">>,
      <<"i","r","o","n">>,
      <<"b","a","t","h","t","u","b">> }

(***************************************************************************)
(* Hotel records given to merge_and_save                                   *)
(***************************************************************************)
ID1 == <<"h", "1">>
ID2 == <<"h", "2">>

NoLocation == [lat |-> None, lng |-> None, address |-> None, city |-> None,
               country |-> None]

BaseHotel(id) ==
    [id |-> id, destination_id |-> Num(1), name |-> Str(<<"A">>),
     description |-> <<>>, location |-> NoLocation,
     amenities |-> [general |-> <<>>, room |-> <<>>],
     images |-> [rooms |-> <<>>, site |-> <<>>, amenities |-> <<>>],
     booking_conditions |-> List(<<>>)]

Paris == Str(<<"P", "a", "r", "i", "s">>)
Berlin == Str(<<"B", "e", "r", "l", "i", "n">>)

wifi == <<"w", "i", "f", "i">>
breakfast == <<"b", "r", "e", "a", "k", "f", "a", "s", "t">>
tv == <<"t", "v">>
iron == <<"i", "r", "o", "n">>

Img1 == [link |-> <<"u", "1">>, description |-> <<"x">>]
Img2 == [link |-> <<"u", "2">>, description |-> <<"y">>]
\* the link of Img1 under another description
Img3 == [link |-> <<"u", "1">>, description |-> <<"z">>]

Cond1 == <<"c", "1">>
Cond2 == <<"c", "2">>

\* records that differ in name and description
NameHotels ==
    { [BaseHotel(ID1) EXCEPT !.name = p[1], !.description = p[2]] :
        p \in { <<None, <<"x", "y", "z">> >>,
                <<Str(<<>>), <<"a", "b">> >>,
                <<Str(<<"A">>), <<"c", "d">> >>,
                <<Str(<<"B">>), <<>> >> } }

\* records that differ in location (and carry another destination)
LocationHotels ==
    { [BaseHotel(ID1) EXCEPT !.destination_id = Num(2), !.location = l] :
        l \in { [NoLocation EXCEPT !.lat = Num(0), !.city = Str(<<>>)],
                [NoLocation EXCEPT !.lat = Num(1), !.city = Paris],
                [NoLocation EXCEPT !.city = Berlin, !.address = Str(<<"x">>)],
                [NoLocation EXCEPT !.lat = Num(2), !.country = Str(<<"S", "G">>)] } }

\* records that differ in amenities, images and booking conditions
CollectionHotels ==
    { [BaseHotel(ID1) EXCEPT
         !.amenities = [general |-> <<wifi, wifi>>, room |-> <<tv>>],
         !.images = [rooms |-> <<Img1, Img1>>, site |-> <<>>, amenities |-> <<>>],
         !.booking_conditions = List(<<Cond1, Cond1>>)],
      [BaseHotel(ID1) EXCEPT
         !.amenities = [general |-> <<breakfast, wifi>>, room |-> <<>>],
         !.images = [rooms |-> <<Img2, Img1>>, site |-> <<Img1>>, amenities |-> <<>>],
         !.booking_conditions = List(<<Cond2>>)],
      [BaseHotel(ID1) EXCEPT
         !.amenities = [general |-> <<>>, room |-> <<tv, iron>>],
         !.images = [rooms |-> <<Img3, Img3>>, site |-> <<>>, amenities |-> <<Img3>>],
         !.booking_conditions = List(<<Cond1, Cond2>>)] }

\* records of a second hotel
OtherHotels ==
    { [BaseHotel(ID2) EXCEPT !.destination_id = Num(12)],
      [BaseHotel(ID2) EXCEPT !.destination_id = None, !.name = Str(<<"B">>),
                             !.description = <<"a", "b">>,
                             !.location = [NoLocation EXCEPT !.city = Paris]],
      [BaseHotel(ID2) EXCEPT !.destination_id = Str(<<"1">>), !.name = None,
                             !.amenities = [general |-> <<wifi>>, room |-> <<tv>>],
                             !.images = [rooms |-> <<Img1>>, site |-> <<>>,
                                         amenities |-> <<>>]] }

HotelInputs == NameHotels \cup LocationHotels \cup CollectionHotels \cup OtherHotels

\* the filters given to find
HotelIdFilters == { {}, {ID1}, {ID2, <<"z">>} }
DestinationIdFilters == { {}, {<<"1">>}, {<<"1", "2">>, <<"N", "o", "n", "e">>} }

(***************************************************************************)
(* HotelsService.merge_and_save                                            *)
(***************************************************************************)
LocationKeys == {"lat", "lng", "address", "city", "country"}

\* faulty variant: the first non-empty name is kept
MergeName_FirstWins(existing, hotel) ==
    IF Truthy(existing.name) THEN existing.name ELSE hotel.name

MergeName(existing, hotel) ==
    IF Truthy(hotel.name) THEN hotel.name ELSE existing.name

\* faulty variant: on equal lengths the incoming description replaces the
\* existing one
MergeDescription_TieTakesNew(existing, hotel) ==
    IF Len(existing.description) <= Len(hotel.description)
    THEN hotel.description ELSE existing.description

MergeDescription(existing, hotel) ==
    IF Len(existing.description) < Len(hotel.description)
    THEN hotel.description ELSE existing.description

\* faulty variant: every present incoming value overwrites the existing one
FillLocation_LastWins(existing, hotel, k) ==
    IF Truthy(hotel.location[k]) THEN hotel.location[k] ELSE existing.location[k]

\* newLocation holds the keys whose existing value is falsy and whose incoming
\* value is truthy; the other keys keep the existing value
FillLocation(existing, hotel, k) ==
    IF ~Truthy(existing.location[k]) /\ Truthy(hotel.location[k])
    THEN hotel.location[k] ELSE existing.location[k]

MergeLocation(existing, hotel) ==
    [lat     |-> FillLocation(existing, hotel, "lat"),
     lng     |-> FillLocation(existing, hotel, "lng"),
     address |-> FillLocation(existing, hotel, "address"),
     city    |-> FillLocation(existing, hotel, "city"),
     country |-> FillLocation(existing, hotel, "country")]

\* set(a + b)
UnionSet(a, b) == ToSet(a \o b)

\* faulty variant: the incoming images are appended unfiltered
MergeImageList_NoDedup(old, new) == old \o new

\* existing.images[k] + [img for img in hotel.images[k] if img not in existing.images[k]]
MergeImageList(old, new) ==
    old \o SelectSeq(new, LAMBDA img : ~InSeq(img, old))

MergeImages(existing, hotel) ==
    [rooms     |-> MergeImageList(existing.images.rooms, hotel.images.rooms),
     site      |-> MergeImageList(existing.images.site, hotel.images.site),
     amenities |-> MergeImageList(existing.images.amenities, hotel.images.amenities)]

\* faulty variant: the incoming destination_id overwrites the existing one
Merged_TakesDestination(existing, hotel, general, room, conds) ==
    [id |-> existing.id,
     destination_id |-> hotel.destination_id,
     name |-> MergeName(existing, hotel),
     description |-> MergeDescription(existing, hotel),
     location |-> MergeLocation(existing, hotel),
     amenities |-> [general |-> general, room |-> room],
     images |-> MergeImages(existing, hotel),
     booking_conditions |-> List(conds)]

\* the else branch; general, room and conds are the lists list(set(...)) returned
Merged(existing, hotel, general, room, conds) ==
    [id |-> existing.id,
     destination_id |-> existing.destination_id,
     name |-> MergeName(existing, hotel),
     description |-> MergeDescription(existing, hotel),
     location |-> MergeLocation(existing, hotel),
     amenities |-> [general |-> general, room |-> room],
     images |-> MergeImages(existing, hotel),
     booking_conditions |-> List(conds)]

MergeResults(existing, hotel) ==
    { Merged(existing, hotel, g, r, c) :
        g \in Orderings(UnionSet(existing.amenities.general, hotel.amenities.general)),
        r \in Orderings(UnionSet(existing.amenities.room, hotel.amenities.room)),
        c \in Orderings(UnionSet(existing.booking_conditions.val,
                                 hotel.booking_conditions.val)) }

\* faulty variant: the mapping is replaced instead of extended
Register_Replace(mapping, hotel) == [k \in {hotel.id} |-> hotel]

\* self.hotels[hotel.id] = hotel
Register(mapping, hotel) ==
    [k \in DOMAIN mapping \cup {hotel.id} |->
        IF k = hotel.id THEN hotel ELSE mapping[k]]

\* one iteration of the loop over supplier_data
MergeAndSave(hotel) ==
    /\ pc \in {"merge", "remerged"}
    /\ Len(supplier_data) < MaxRecords
    /\ IF hotel.id \notin DOMAIN hotels
       THEN /\ hotels' = Register(hotels, hotel)
            /\ order' = Append(order, hotel.id)
       ELSE /\ \E m \in MergeResults(hotels[hotel.id], hotel) :
                   hotels' = [hotels EXCEPT ![hotel.id] = m]
            /\ order' = order
    /\ supplier_data' = Append(supplier_data, hotel)
    /\ pc' = "merge"
    /\ UNCHANGED <<pending, filtered, query, supplier, dto, result>>

\* merge_and_save called again on the merged entities: the list holds the
\* entities of the mapping themselves, so each iteration merges an entity
\* with itself
Remerge ==
    /\ pc \in {"merge", "remerged", "remerge"}
    /\ LET list == IF pc = "remerge" THEN pending ELSE order
       IN  /\ list # <<>>
           /\ \E m \in MergeResults(hotels[Head(list)], hotels[Head(list)]) :
                  hotels' = [hotels EXCEPT ![Head(list)] = m]
           /\ pending' = Tail(list)
           /\ pc' = IF Tail(list) = <<>> THEN "remerged" ELSE "remerge"
    /\ UNCHANGED <<supplier_data, order, filtered, query, supplier, dto, result>>

(***************************************************************************)
(* HotelsService.find                                                      *)
(***************************************************************************)
\* faulty variant: an empty filter matches no hotel
Matches_EmptyMatchesNothing(hotel, hotel_ids, destination_ids) ==
    /\ hotel.id \in hotel_ids
    /\ ToStr(hotel.destination_id) \in destination_ids

Matches(hotel, hotel_ids, destination_ids) ==
    /\ (hotel_ids = {} \/ hotel.id \in hotel_ids)
    /\ (destination_ids = {} \/ ToStr(hotel.destination_id) \in destination_ids)

\* self.hotels.values(), in insertion order
Values == [i \in 1..Len(order) |-> hotels[order[i]]]

Find(hotel_ids, destination_ids) ==
    /\ pc \in {"merge", "remerged"}
    /\ filtered' = SelectSeq(Values, LAMBDA h : Matches(h, hotel_ids, destination_ids))
    /\ query' = [hotel_ids |-> hotel_ids, destination_ids |-> destination_ids]
    /\ pc' = "found"
    /\ UNCHANGED <<supplier_data, hotels, order, pending, supplier, dto, result>>

NoQuery == [hotel_ids |-> {}, destination_ids |-> {}]
NoRecord == [absent |-> TRUE]

Init ==
    /\ pc = "merge"
    /\ supplier_data = <<>>
    /\ hotels = <<>>
    /\ order = <<>>
    /\ pending = <<>>
    /\ filtered = <<>>
    /\ query = NoQuery
    /\ supplier = "none"
    /\ dto = NoRecord
    /\ result = NoRecord

Next ==
    \/ \E hotel \in HotelInputs : MergeAndSave(hotel)
    \/ Remerge
    \/ \E hotel_ids \in HotelIdFilters, destination_ids \in DestinationIdFilters :
           Find(hotel_ids, destination_ids)

Spec == Init /\ [][Next]_vars

(***************************************************************************)
(* Supplier adapters: Acme.parse, Paperflies.parse, Patagonia.parse        *)
(***************************************************************************)
Has(d, key) == key \in DOMAIN d

\* v or ""
OrEmpty(v) == IF Truthy(v) THEN v.val ELSE <<>>

\* d.get(key) of a dict
Get(d, key) == IF Has(d, key) THEN d[key] ELSE None

\* (v or {}).get(key, []) for a dict of lists, or None
GetList(v, key) ==
    IF Truthy(v) /\ Has(v.val, key) THEN v.val[key] ELSE <<>>

Raised(error) == [ok |-> FALSE, error |-> error]
Returned(hotel) == [ok |-> TRUE, hotel |-> hotel]

\* Acme.parse.parse_amenities: strip, camel_to_snake_case, then membership
AcmeFormatted(facilities) ==
    [i \in 1..Len(facilities) |-> camel_to_snake_case(Strip(facilities[i]))]

AcmeParseAmenities(facilities) ==
    [general |-> SelectSeq(AcmeFormatted(facilities), LAMBDA a : a \in GENERAL_AMENITIES),
     room    |-> SelectSeq(AcmeFormatted(facilities), LAMBDA a : a \in ROOM_AMENITIES)]

AcmeAddress(d) ==
    LET address == Strip(OrEmpty(d.Address))
    IN  IF Truthy(d.PostalCode) /\ ~IsSubstring(d.PostalCode.val, address)
        THEN address \o <<",", " ">> \o d.PostalCode.val
        ELSE address

AcmeKeys == {"Id", "DestinationId", "Name", "Latitude", "Longitude", "Address",
             "City", "Country", "PostalCode", "Description", "Facilities"}

AcmeParse(d) ==
    IF ~(AcmeKeys \subseteq DOMAIN d) THEN Raised("KeyError")
    ELSE Returned(
        [id |-> d.Id,
         destination_id |-> d.DestinationId,
         name |-> d.Name,
         description |-> OrEmpty(d.Description),
         location |-> [lat |-> d.Latitude, lng |-> d.Longitude,
                       address |-> Str(AcmeAddress(d)),
                       city |-> d.City, country |-> d.Country],
         amenities |-> AcmeParseAmenities(OrEmpty(d.Facilities)),
         images |-> [rooms |-> <<>>, site |-> <<>>, amenities |-> <<>>],
         booking_conditions |-> List(<<>>)])

\* {"link": img["link"], "description": img["caption"]}
PaperfliesImages(imgs) ==
    [i \in 1..Len(imgs) |-> [link |-> imgs[i].link, description |-> imgs[i].caption]]

PaperfliesParse(d) ==
    IF ~({"hotel_id", "destination_id", "hotel_name", "details"} \subseteq DOMAIN d)
    THEN Raised("KeyError")
    ELSE IF Has(d, "location") /\ d.location = None THEN Raised("AttributeError")
    ELSE IF ~({"amenities", "images"} \subseteq DOMAIN d) THEN Raised("KeyError")
    ELSE LET location == IF Has(d, "location") THEN d.location.val ELSE <<>>
         IN  Returned(
        [id |-> d.hotel_id,
         destination_id |-> d.destination_id,
         name |-> d.hotel_name,
         description |-> OrEmpty(d.details),
         location |-> [lat |-> None, lng |-> None,
                       address |-> Get(location, "address"),
                       city |-> None,
                       country |-> Get(location, "country")],
         amenities |-> IF Truthy(d.amenities) THEN d.amenities.val
                       ELSE [general |-> <<>>, room |-> <<>>],
         images |-> [rooms |-> PaperfliesImages(GetList(d.images, "rooms")),
                     site |-> PaperfliesImages(GetList(d.images, "site")),
                     amenities |-> <<>>],
         booking_conditions |-> IF Has(d, "booking_conditions")
                                THEN d.booking_conditions ELSE List(<<>>)])

\* Patagonia.parse.parse_amenities: lower, strip, then membership
PatagoniaFormatted(amenities) ==
    [i \in 1..Len(amenities) |-> Strip(Lower(amenities[i]))]

PatagoniaParseAmenities(amenities) ==
    [general |-> SelectSeq(PatagoniaFormatted(amenities), LAMBDA a : a \in GENERAL_AMENITIES),
     room    |-> SelectSeq(PatagoniaFormatted(amenities), LAMBDA a : a \in ROOM_AMENITIES)]

\* {"link": img["url"], "description": img["description"]}
PatagoniaImages(imgs) ==
    [i \in 1..Len(imgs) |-> [link |-> imgs[i].url, description |-> imgs[i].description]]

PatagoniaKeys == {"id", "destination", "name", "info", "lat", "lng", "address",
                  "amenities", "images"}

PatagoniaParse(d) ==
    IF ~(PatagoniaKeys \subseteq DOMAIN d) THEN Raised("KeyError")
    ELSE Returned(
        [id |-> d.id,
         destination_id |-> d.destination,
         name |-> d.name,
         description |-> OrEmpty(d.info),
         location |-> [lat |-> d.lat, lng |-> d.lng, address |-> d.address,
                       city |-> None, country |-> None],
         amenities |-> PatagoniaParseAmenities(OrEmpty(d.amenities)),
         images |-> [rooms |-> PatagoniaImages(GetList(d.images, "rooms")),
                     site |-> <<>>,
                     amenities |-> PatagoniaImages(GetList(d.images, "amenities"))],
         booking_conditions |-> List(<<>>)])

(***************************************************************************)
(* Raw supplier records                                                    *)
(***************************************************************************)
AcmeBase ==
    [Id |-> ID1, DestinationId |-> Num(1), Name |-> Str(<<"A">>),
     Latitude |-> Num(1), Longitude |-> Num(2), Address |-> Str(<<" ", "x", " ">>),
     City |-> Paris, Country |-> Str(<<"S", "G">>), PostalCode |-> Str(<<"9">>),
     Description |-> Str(<<"a", "b">>), Facilities |-> List(<<<<"O", "u", "t", "d", "o", "o", "r", "P", "o", "o", "l">>>>)]

\* every optional field null
AcmeNulls ==
    [Id |-> ID1, DestinationId |-> None, Name |-> None, Latitude |-> None,
     Longitude |-> None, Address |-> None, City |-> None, Country |-> None,
     PostalCode |-> None, Description |-> None, Facilities |-> None]

AcmeFacilities ==
    { None, List(<<>>),
      List(<<<<"W", "i", "F", "i">>>>),
      List(<<<<" ", "B", "u", "s", "i", "n", "e", "s", "s", "C", "e", "n", "t", "e", "r">>, <<"A", "i", "r", "c", "o", "n", " ">>>>),
      List(<<<<"D", "r", "y", "C", "l", "e", "a", "n", "i", "n", "g">>, <<"D", "r", "y", "C", "l", "e", "a", "n", "i", "n", "g">>, <<"B", "a", "t", "h", "T", "u", "b">>>>),
      List(<<<<"b", "r", "e", "a", "k", "f", "a", "s", "t">>, <<"t", "v">>, <<"P", "o", "o", "l">>>>),
      List(<<<<"T", "V">>, <<"O", "u", "t", "d", "o", "o", "r", " ", "P", "o", "o", "l">>>>),
      List(<<<<"w", "i", "f", "i">>, <<"I", "r", "o", "n">>, <<" ", "K", "e", "t", "t", "l", "e">>, <<"H", "a", "i", "r", "D", "r", "y", "e", "r">>>>) }

AcmeRecords ==
    { [AcmeBase EXCEPT !.Facilities = f] : f \in AcmeFacilities }
    \cup { [AcmeBase EXCEPT !.Address = p[1], !.PostalCode = p[2]] :
             p \in { <<None, None>>, <<None, Str(<<"9">>)>>,
                     <<Str(<<"x", " ", "9">>), Str(<<"9">>)>>,
                     <<Str(<<"x">>), Str(<<>>)>>,
                     <<Str(<<"x", "\t">>), Str(<<"9", "0">>)>> } }
    \cup { [AcmeBase EXCEPT !.Name = n, !.Description = n, !.Id = ID2,
                            !.DestinationId = Str(<<"1">>)] :
             n \in {None, Str(<<>>), Str(<<"B">>)} }
    \cup { AcmeNulls,
           [Id |-> ID1],
           [k \in AcmeKeys \ {"PostalCode"} |-> AcmeBase[k]],
           [k \in AcmeKeys \ {"Name"} |-> AcmeNulls[k]] }

Caption1 == [link |-> <<"u", "1">>, caption |-> <<"x">>]
Caption2 == [link |-> <<"u", "2">>, caption |-> <<"y">>]

PaperfliesBase ==
    [hotel_id |-> ID1, destination_id |-> Num(1), hotel_name |-> Str(<<"A">>),
     details |-> Str(<<"a", "b">>),
     location |-> Dict([address |-> Str(<<"x">>), country |-> Str(<<"S", "G">>)]),
     amenities |-> Dict([general |-> <<<<"o", "u", "t", "d", "o", "o", "r", " ", "p", "o", "o", "l">>>>, room |-> <<<<"t", "v">>>>]),
     images |-> Dict([rooms |-> <<Caption1>>, site |-> <<Caption2>>]),
     booking_conditions |-> List(<<Cond1>>)]

\* every optional field null
PaperfliesNulls ==
    [hotel_id |-> ID1, destination_id |-> None, hotel_name |-> None,
     details |-> None, location |-> None, amenities |-> None, images |-> None,
     booking_conditions |-> None]

PaperfliesKeys == DOMAIN PaperfliesBase

PaperfliesRecords ==
    { [PaperfliesBase EXCEPT !.location = l] :
        l \in { None, Dict([address |-> Str(<<"x">>)]),
                Dict([country |-> Str(<<"S", "G">>)]),
                Dict([address |-> None, country |-> Str(<<>>)]) } }
    \cup { [PaperfliesBase EXCEPT !.amenities = a] :
             a \in { None,
                     Dict([general |-> <<>>, room |-> <<>>]),
                     Dict([general |-> <<<<"w", "i", "f", "i">>, <<"w", "i", "f", "i">>>>, room |-> <<<<"i", "r", "o", "n">>, <<"t", "v">>>>]),
                     Dict([general |-> <<<<"i", "n", "d", "o", "o", "r", " ", "p", "o", "o", "l">>>>, room |-> <<<<"a", "i", "r", "c", "o", "n">>, <<"m", "i", "n", "i", "b", "a", "r">>>>]),
                     Dict([general |-> <<<<"P", "o", "o", "l">>>>, room |-> <<>>]) } }
    \cup { [PaperfliesBase EXCEPT !.images = i] :
             i \in { None, Dict([rooms |-> <<Caption1, Caption1>>]),
                     Dict([site |-> <<Caption2, Caption1>>]),
                     Dict([rooms |-> <<>>, site |-> <<>>]) } }
    \cup { [PaperfliesBase EXCEPT !.booking_conditions = b] :
             b \in { None, List(<<>>), List(<<Cond1, Cond1, Cond2>>) } }
    \cup { [PaperfliesBase EXCEPT !.hotel_name = n, !.details = n, !.hotel_id = ID2,
                                  !.destination_id = None] :
             n \in {None, Str(<<>>), Str(<<"B">>)} }
    \cup { PaperfliesNulls,
           [hotel_id |-> ID1],
           [k \in PaperfliesKeys \ {"location"} |-> PaperfliesBase[k]],
           [k \in PaperfliesKeys \ {"booking_conditions"} |-> PaperfliesBase[k]],
           [k \in PaperfliesKeys \ {"location", "booking_conditions"} |->
               IF k = "hotel_id" THEN ID1 ELSE None],
           [k \in PaperfliesKeys \ {"images"} |-> PaperfliesBase[k]] }

Picture1 == [url |-> <<"u", "1">>, description |-> <<"x">>]
Picture2 == [url |-> <<"u", "2">>, description |-> <<"y">>]

PatagoniaBase ==
    [id |-> ID1, destination |-> Num(1), name |-> Str(<<"A">>),
     info |-> Str(<<"a", "b">>), lat |-> Num(1), lng |-> Num(2),
     address |-> Str(<<"x">>), amenities |-> List(<<<<"A", "i", "r", "c", "o", "n">>, <<"T", "v">>>>),
     images |-> Dict([rooms |-> <<Picture1>>, amenities |-> <<Picture2>>])]

\* every optional field null
PatagoniaNulls ==
    [id |-> ID1, destination |-> None, name |-> None, info |-> None,
     lat |-> None, lng |-> None, address |-> None, amenities |-> None,
     images |-> None]

PatagoniaRecords ==
    { [PatagoniaBase EXCEPT !.amenities = a] :
        a \in { None, List(<<>>),
                List(<<<<"A", "i", "r", "c", "o", "n">>, <<"T", "v">>, <<"C", "o", "f", "f", "e", "e", " ", "m", "a", "c", "h", "i", "n", "e">>>>),
                List(<<<<" ", "B", "a", "t", "h", "t", "u", "b", " ">>, <<"W", "I", "F", "I">>>>),
                List(<<<<"P", "o", "o", "l">>, <<"T", "v">>, <<"T", "v">>>>),
                List(<<<<"H", "a", "i", "r", " ", "d", "r", "y", "e", "r">>, <<"K", "e", "t", "t", "l", "e">>, <<"B", "a", "r">>>>) } }
    \cup { [PatagoniaBase EXCEPT !.images = i] :
             i \in { None, Dict([rooms |-> <<Picture1, Picture1>>]),
                     Dict([amenities |-> <<Picture2, Picture1>>]),
                     Dict([rooms |-> <<>>, amenities |-> <<>>]) } }
    \cup { [PatagoniaBase EXCEPT !.name = n, !.info = n, !.id = ID2,
                                 !.destination = Num(12)] :
             n \in {None, Str(<<>>), Str(<<"B">>)} }
    \cup { [PatagoniaBase EXCEPT !.lat = p[1], !.lng = p[2], !.address = p[3]] :
             p \in { <<None, None, None>>, <<Num(0), Num(0), Str(<<>>)>>,
                     <<Str(<<>>), Str(<<>>), Str(<<" ">>)>> } }
    \cup { PatagoniaNulls,
           [id |-> ID1],
           [k \in PatagoniaKeys \ {"images"} |-> PatagoniaBase[k]],
           [k \in PatagoniaKeys \ {"info"} |-> PatagoniaNulls[k]] }

RawRecords(s) ==
    CASE s = "acme"       -> AcmeRecords
      [] s = "paperflies" -> PaperfliesRecords
      [] s = "patagonia"  -> PatagoniaRecords

(***************************************************************************)
(* Fetching one supplier record: parse it, then merge_and_save it          *)
(***************************************************************************)
\* BaseSupplier.fetch for one record: the supplier's parse is applied to it
Fetched(parsed) ==
    /\ pc = "fetch"
    /\ result' = parsed
    /\ pc' = IF parsed.ok THEN "merge" ELSE "raised"
    /\ UNCHANGED <<supplier_data, hotels, order, pending, filtered, query,
                   supplier, dto>>

AcmeFetch ==
    /\ supplier = "acme"
    /\ Fetched(AcmeParse(dto))

PaperfliesFetch ==
    /\ supplier = "paperflies"
    /\ Fetched(PaperfliesParse(dto))

PatagoniaFetch ==
    /\ supplier = "patagonia"
    /\ Fetched(PatagoniaParse(dto))

\* merge_and_save of the one parsed record
SaveParsed ==
    /\ result # NoRecord
    /\ result.ok
    /\ supplier_data = <<>>
    /\ MergeAndSave(result.hotel)

InitParse ==
    /\ pc = "fetch"
    /\ supplier \in {"acme", "paperflies", "patagonia"}
    /\ dto \in RawRecords(supplier)
    /\ result = NoRecord
    /\ supplier_data = <<>>
    /\ hotels = <<>>
    /\ order = <<>>
    /\ pending = <<>>
    /\ filtered = <<>>
    /\ query = NoQuery

NextParse ==
    \/ AcmeFetch
    \/ PaperfliesFetch
    \/ PatagoniaFetch
    \/ SaveParsed

SpecParse == InitParse /\ [][NextParse]_vars

(***************************************************************************)
(* Properties of merge_and_save and find                                   *)
(***************************************************************************)
\* the records of the input that carry the id k, in input order
RecordsFor(k) == SelectSeq(supplier_data, LAMBDA h : h.id = k)

\* C1: the merged mapping has exactly one entry per distinct id of the input,
\* no other entry, and the entity stored under key k has id k.
C1_OneEntityPerId ==
    /\ DOMAIN hotels = {supplier_data[i].id : i \in 1..Len(supplier_data)}
    /\ ToSet(order) = DOMAIN hotels
    /\ NoDuplicates(order)
    /\ \A k \in DOMAIN hotels : hotels[k].id = k

C1_Witness ==
    /\ Len(supplier_data) >= 3
    /\ Cardinality(DOMAIN hotels) = 2

\* the first present (truthy) value of location field f among recs, or the
\* first record's value when none is present
FirstPresent(recs, f) ==
    IF \E i \in 1..Len(recs) : Truthy(recs[i].location[f])
    THEN LET i == CHOOSE i \in 1..Len(recs) :
                      /\ Truthy(recs[i].location[f])
                      /\ \A j \in 1..(i - 1) : ~Truthy(recs[j].location[f])
         IN  recs[i].location[f]
    ELSE recs[1].location[f]

\* C2: each location field of a merged entity holds the first present value
\* among the records of its id (a present value is never changed, an absent
\* field adopts the first later present value), and stays at the first
\* record's value while no record has a present one (never replaced by an
\* absent value).
C2_LocationFirstPresentWins ==
    \A k \in DOMAIN hotels : \A f \in LocationKeys :
        hotels[k].location[f] = FirstPresent(RecordsFor(k), f)

C2_Witness ==
    \E k \in DOMAIN hotels :
        LET recs == RecordsFor(k)
        IN  /\ Len(recs) >= 3
            /\ ~Truthy(recs[1].location.city)
            /\ recs[2].location.city = Paris
            /\ recs[3].location.city = Berlin
            /\ hotels[k].location.city = Paris

\* the first description of maximal length among recs
FirstLongest(recs) ==
    LET i == CHOOSE i \in 1..Len(recs) :
                 /\ \A j \in 1..Len(recs) :
                        Len(recs[j].description) <= Len(recs[i].description)
                 /\ \A j \in 1..(i - 1) :
                        Len(recs[j].description) < Len(recs[i].description)
    IN  recs[i].description

\* C3: the merged description is a description of maximal length among the
\* records of the id, the first to arrive among those of equal length.
C3_LongestDescriptionFirstOnTie ==
    \A k \in DOMAIN hotels : hotels[k].description = FirstLongest(RecordsFor(k))

C3_Witness ==
    \E k \in DOMAIN hotels :
        LET recs == RecordsFor(k)
        IN  /\ Len(recs) >= 3
            /\ recs[1].description = <<>>
            /\ recs[2].description = <<"a", "b">>
            /\ recs[3].description = <<"c", "d">>
            /\ hotels[k].description = <<"a", "b">>

\* the name of the last record of recs whose name is present, or the first
\* record's name when no later record has one
LastPresentName(recs) ==
    IF \E i \in 1..Len(recs) : Truthy(recs[i].name)
    THEN LET i == CHOOSE i \in 1..Len(recs) :
                      /\ Truthy(recs[i].name)
                      /\ \A j \in (i + 1)..Len(recs) : ~Truthy(recs[j].name)
         IN  recs[i].name
    ELSE recs[1].name

\* C4: the merged name is the name of the last record of the id whose name is
\* non-empty; records with an empty or absent name never change it.
C4_LastNonEmptyNameWins ==
    \A k \in DOMAIN hotels : hotels[k].name = LastPresentName(RecordsFor(k))

C4_Witness ==
    \E k \in DOMAIN hotels :
        LET recs == RecordsFor(k)
        IN  /\ Len(recs) >= 3
            /\ recs[1].name = Str(<<"A">>)
            /\ recs[2].name = Str(<<"B">>)
            /\ ~Truthy(recs[3].name)
            /\ hotels[k].name = Str(<<"B">>)

\* C5: no collection of a merged entity (amenities.general, amenities.room,
\* booking_conditions, images.rooms, images.site, images.amenities) holds a
\* duplicate entry.
C5_NoDuplicateEntries ==
    \A k \in DOMAIN hotels :
        /\ NoDuplicates(hotels[k].amenities.general)
        /\ NoDuplicates(hotels[k].amenities.room)
        /\ NoDuplicates(hotels[k].booking_conditions.val)
        /\ NoDuplicates(hotels[k].images.rooms)
        /\ NoDuplicates(hotels[k].images.site)
        /\ NoDuplicates(hotels[k].images.amenities)

\* C6: the id and destination_id of a merged entity are those of the first
\* record seen for its id.
C6_IdAndDestinationFirstWins ==
    \A k \in DOMAIN hotels :
        /\ hotels[k].id = RecordsFor(k)[1].id
        /\ hotels[k].destination_id = RecordsFor(k)[1].destination_id

C6_Witness ==
    \E k \in DOMAIN hotels :
        LET recs == RecordsFor(k)
        IN  /\ Len(recs) >= 2
            /\ recs[2].destination_id # recs[1].destination_id
            /\ hotels[k].destination_id = recs[1].destination_id

\* what re-merging must preserve of one entity
SameEntity(old, new) ==
    /\ new.id = old.id
    /\ new.destination_id = old.destination_id
    /\ new.name = old.name
    /\ new.description = old.description
    /\ new.location = old.location
    /\ ToSet(new.amenities.general) = ToSet(old.amenities.general)
    /\ ToSet(new.amenities.room) = ToSet(old.amenities.room)
    /\ ToSet(new.booking_conditions.val) = ToSet(old.booking_conditions.val)
    /\ new.images = old.images

\* C7: passing the merged entities through merge_and_save again changes no
\* field of any entity: same keys, same scalar fields and location, same
\* amenity and booking-condition sets, same image sequences.
C7_RemergeIsFixedPoint ==
    [][pc' \in {"remerge", "remerged"} =>
          /\ DOMAIN hotels' = DOMAIN hotels
          /\ order' = order
          /\ \A k \in DOMAIN hotels : SameEntity(hotels[k], hotels'[k])]_vars

C7_Witness ==
    /\ pc = "remerged"
    /\ \E k \in DOMAIN hotels :
           /\ Len(RecordsFor(k)) >= 2
           /\ Len(hotels[k].images.rooms) >= 2
           /\ hotels[k].amenities.general # <<>>
           /\ Truthy(hotels[k].booking_conditions)

\* the hotels find must return for the last query
Expected(hotel) ==
    /\ (query.hotel_ids = {} \/ hotel.id \in query.hotel_ids)
    /\ (query.destination_ids = {}
           \/ ToStr(hotel.destination_id) \in query.destination_ids)

FindResultCorrect ==
    /\ \A i \in 1..Len(filtered) : \E k \in DOMAIN hotels : filtered[i] = hotels[k]
    /\ \A k \in DOMAIN hotels :
           Cardinality({i \in 1..Len(filtered) : filtered[i] = hotels[k]})
               = IF Expected(hotels[k]) THEN 1 ELSE 0
    /\ (query.hotel_ids = {} /\ query.destination_ids # {}) =>
           ToSet(filtered) =
               {hotels[k] : k \in {j \in DOMAIN hotels :
                    ToStr(hotels[j].destination_id) \in query.destination_ids}}

\* C8: find returns a hotel iff it passes both filters (an empty filter
\* passes every hotel, destination_id is compared in its string form), each
\* such hotel once, and leaves the merged mapping unchanged.
C8_FindFiltersByIdAndDestination ==
    [][pc' = "found" =>
          /\ FindResultCorrect'
          /\ hotels' = hotels
          /\ order' = order]_vars

C8_Witness ==
    /\ pc = "found"
    /\ query.hotel_ids = {}
    /\ query.destination_ids = {<<"1", "2">>, <<"N", "o", "n", "e">>}
    /\ Cardinality(DOMAIN hotels) = 2
    /\ Len(filtered) = 1
    /\ filtered[1].destination_id = Num(12)

(***************************************************************************)
(* Properties of the adapters                                              *)
(***************************************************************************)
WithinVocabulary(hotel) ==
    /\ ToSet(hotel.amenities.general) \subseteq GENERAL_AMENITIES
    /\ ToSet(hotel.amenities.room) \subseteq ROOM_AMENITIES

\* C9: the Hotel an adapter parses, and every merged entity built from it,
\* has only GENERAL vocabulary values in amenities.general and only ROOM
\* vocabulary values in amenities.room.
C9_AmenitiesWithinVocabulary ==
    /\ (result # NoRecord /\ result.ok) => WithinVocabulary(result.hotel)
    /\ \A k \in DOMAIN hotels : WithinVocabulary(hotels[k])

IdentifierKeys == {"Id", "hotel_id", "id"}

\* every field of the raw record but the identifier is null or absent
OnlyIdentifierPresent ==
    \A key \in DOMAIN dto \ IdentifierKeys : dto[key] = None

\* C10: parsing a raw record whose optional fields are all null or absent
\* succeeds, and the Hotel's text fields are strings and its collection
\* fields collections, never null.
C10_ParseToleratesMissingFields ==
    (pc # "fetch" /\ OnlyIdentifierPresent) =>
        /\ result.ok
        /\ result.hotel.name.tag = "str"
        /\ result.hotel.booking_conditions.tag = "list"

====
